---- MODULE Spec2Model ----
(***************************************************************************)
(* JEE Exam Tracker: the countdown arithmetic of utils/dateUtils.ts and    *)
(* the reminder scheduling of App.tsx (React component `App`).             *)
(*                                                                         *)
(* Instants are milliseconds counted from the model epoch, the instant at  *)
(* which the page is loaded: 2026-01-20T22:59:58.000+05:30, one hour and   *)
(* two seconds before the default target.                                  *)
(***************************************************************************)
EXTENDS Integers, Sequences, FiniteSets, TLC

\* ------------------------------------------------------------------------
\* Bounds of the model
\* ------------------------------------------------------------------------
\* last instant the modelled clock reaches
MaxClock == 3000
\* handles the browser hands out through setTimeout
MaxTimerId == 4
\* Notification.requestPermission() promises in flight at once
MaxRequests == 2
\* whole days used when composing inputs of calculateCountdown
MaxDays == 5

\* ------------------------------------------------------------------------
\* utils/dateUtils.ts
\* ------------------------------------------------------------------------
MILLISECONDS_IN_SECOND == 1000
MILLISECONDS_IN_MINUTE == 60 * MILLISECONDS_IN_SECOND
MILLISECONDS_IN_HOUR == 60 * MILLISECONDS_IN_MINUTE
MILLISECONDS_IN_DAY == 24 * MILLISECONDS_IN_HOUR

\* Math.abs
Abs(x) == IF x < 0 THEN -x ELSE x

\* calculateCountdown with the hours taken from the whole duration, the
\* remainder modulo a day forgotten
calculateCountdownHoursOfTotal(targetMs, nowMs) ==
  LET totalMs == targetMs - nowMs
      absTotalMs == Abs(totalMs)
  IN [totalMs |-> totalMs,
      days |-> absTotalMs \div MILLISECONDS_IN_DAY,
      hours |-> absTotalMs \div MILLISECONDS_IN_HOUR,
      minutes |-> (absTotalMs % MILLISECONDS_IN_HOUR) \div MILLISECONDS_IN_MINUTE,
      seconds |-> (absTotalMs % MILLISECONDS_IN_MINUTE) \div MILLISECONDS_IN_SECOND,
      isPast |-> totalMs < 0]

\* calculateCountdown with the seconds rounded (Math.round) instead of floored
calculateCountdownRounded(targetMs, nowMs) ==
  LET totalMs == targetMs - nowMs
      absTotalMs == Abs(totalMs)
  IN [totalMs |-> totalMs,
      days |-> absTotalMs \div MILLISECONDS_IN_DAY,
      hours |-> (absTotalMs % MILLISECONDS_IN_DAY) \div MILLISECONDS_IN_HOUR,
      minutes |-> (absTotalMs % MILLISECONDS_IN_HOUR) \div MILLISECONDS_IN_MINUTE,
      seconds |-> ((absTotalMs % MILLISECONDS_IN_MINUTE) + 500)
                    \div MILLISECONDS_IN_SECOND,
      isPast |-> totalMs < 0]

\* calculateCountdown with isPast taken as totalMs <= 0
calculateCountdownPastAtZero(targetMs, nowMs) ==
  LET totalMs == targetMs - nowMs
      absTotalMs == Abs(totalMs)
  IN [totalMs |-> totalMs,
      days |-> absTotalMs \div MILLISECONDS_IN_DAY,
      hours |-> (absTotalMs % MILLISECONDS_IN_DAY) \div MILLISECONDS_IN_HOUR,
      minutes |-> (absTotalMs % MILLISECONDS_IN_HOUR) \div MILLISECONDS_IN_MINUTE,
      seconds |-> (absTotalMs % MILLISECONDS_IN_MINUTE) \div MILLISECONDS_IN_SECOND,
      isPast |-> totalMs <= 0]

\* calculateCountdown(targetDate, now), both given by their getTime()
calculateCountdown(targetMs, nowMs) ==
  LET totalMs == targetMs - nowMs
      isPast == totalMs < 0
      absTotalMs == Abs(totalMs)
      days == absTotalMs \div MILLISECONDS_IN_DAY
      hours == (absTotalMs % MILLISECONDS_IN_DAY) \div MILLISECONDS_IN_HOUR
      minutes == (absTotalMs % MILLISECONDS_IN_HOUR) \div MILLISECONDS_IN_MINUTE
      seconds == (absTotalMs % MILLISECONDS_IN_MINUTE) \div MILLISECONDS_IN_SECOND
  IN [totalMs |-> totalMs, days |-> days, hours |-> hours,
      minutes |-> minutes, seconds |-> seconds, isPast |-> isPast]

\* s.padStart(width, fill) for a one-character fill
RECURSIVE PadStart(_, _, _)
PadStart(str, width, fill) ==
  IF Len(str) >= width THEN str ELSE PadStart(fill \o str, width, fill)

\* the pad that cuts the number down to its last two digits
Pad2Truncating(n) == PadStart(ToString(n % 100), 2, "0")

\* String(n).padStart(2, '0')
Pad2(n) == PadStart(ToString(n), 2, "0")

\* the sub-second test never taken
IsSubSecondHiddenNever(cd, showSeconds) == FALSE

\* Math.abs(countdown.totalMs) < 1000 && !showSeconds
IsSubSecondHidden(cd, showSeconds) == Abs(cd.totalMs) < 1000 /\ ~showSeconds

\* the sign with the test of totalMs forgotten
SignOnPast(cd) == IF cd.isPast THEN "-" ELSE ""

\* isPast && countdown.totalMs !== 0 ? '-' : ''
Sign(cd) == IF cd.isPast /\ cd.totalMs # 0 THEN "-" ELSE ""

\* formatTime(countdown, showSeconds)
formatTime(cd, showSeconds) ==
  IF IsSubSecondHidden(cd, showSeconds)
    THEN (IF cd.isPast THEN "00 : 00 : 00" ELSE "00 : 00 : 00")
  ELSE LET sign == Sign(cd)
           d == Pad2(cd.days)
           h == Pad2(cd.hours)
           m == Pad2(cd.minutes)
           sec == Pad2(cd.seconds)
       IN IF showSeconds
            THEN sign \o d \o " : " \o h \o " : " \o m \o " : " \o sec
            ELSE sign \o d \o " : " \o h \o " : " \o m

\* the unit pluralised whatever the number
PluralAlways(n, unit) == ToString(n) \o " " \o unit \o "s"

\* `${n} ${unit}${n !== 1 ? 's' : ''}`
Plural(n, unit) == ToString(n) \o " " \o unit \o (IF n # 1 THEN "s" ELSE "")

\* parts.join(', ')
RECURSIVE Join(_)
Join(parts) ==
  IF Len(parts) = 0 THEN ""
  ELSE IF Len(parts) = 1 THEN parts[1]
  ELSE parts[1] \o ", " \o Join(Tail(parts))

\* formatHumanReadable with the sub-second messages swapped
formatHumanReadableSwapped(cd) ==
  LET absTotalMs == Abs(cd.totalMs)
      parts == (IF cd.days > 0 THEN <<Plural(cd.days, "day")>> ELSE <<>>)
               \o (IF cd.hours > 0 THEN <<Plural(cd.hours, "hour")>> ELSE <<>>)
               \o (IF cd.minutes > 0 THEN <<Plural(cd.minutes, "minute")>> ELSE <<>>)
  IN IF absTotalMs < 1000
       THEN (IF cd.isPast THEN "Less than a second remaining."
                          ELSE "Exam passed a moment ago.")
     ELSE IF Len(parts) = 0
       THEN (IF cd.isPast THEN "Exam passed." ELSE "Less than a minute remaining.")
     ELSE Join(parts) \o " " \o (IF cd.isPast THEN "ago" ELSE "remaining") \o "."

\* formatHumanReadable without the test for an empty list of parts
formatHumanReadableNoEmptyCase(cd) ==
  LET absTotalMs == Abs(cd.totalMs)
      parts == (IF cd.days > 0 THEN <<Plural(cd.days, "day")>> ELSE <<>>)
               \o (IF cd.hours > 0 THEN <<Plural(cd.hours, "hour")>> ELSE <<>>)
               \o (IF cd.minutes > 0 THEN <<Plural(cd.minutes, "minute")>> ELSE <<>>)
  IN IF absTotalMs < 1000
       THEN (IF cd.isPast THEN "Exam passed a moment ago."
                          ELSE "Less than a second remaining.")
     ELSE Join(parts) \o " " \o (IF cd.isPast THEN "ago" ELSE "remaining") \o "."

\* formatHumanReadable that keeps the zero fields in the sentence
formatHumanReadableZeroParts(cd) ==
  LET absTotalMs == Abs(cd.totalMs)
      parts == <<Plural(cd.days, "day"), Plural(cd.hours, "hour"),
                 Plural(cd.minutes, "minute")>>
  IN IF absTotalMs < 1000
       THEN (IF cd.isPast THEN "Exam passed a moment ago."
                          ELSE "Less than a second remaining.")
     ELSE IF cd.days = 0 /\ cd.hours = 0 /\ cd.minutes = 0
       THEN (IF cd.isPast THEN "Exam passed." ELSE "Less than a minute remaining.")
     ELSE Join(parts) \o " " \o (IF cd.isPast THEN "ago" ELSE "remaining") \o "."

\* formatHumanReadable(countdown)
formatHumanReadable(cd) ==
  LET absTotalMs == Abs(cd.totalMs)
      parts == (IF cd.days > 0 THEN <<Plural(cd.days, "day")>> ELSE <<>>)
               \o (IF cd.hours > 0 THEN <<Plural(cd.hours, "hour")>> ELSE <<>>)
               \o (IF cd.minutes > 0 THEN <<Plural(cd.minutes, "minute")>> ELSE <<>>)
  IN IF absTotalMs < 1000
       THEN (IF cd.isPast THEN "Exam passed a moment ago."
                          ELSE "Less than a second remaining.")
     ELSE IF Len(parts) = 0
       THEN (IF cd.isPast THEN "Exam passed." ELSE "Less than a minute remaining.")
     ELSE Join(parts) \o " " \o (IF cd.isPast THEN "ago" ELSE "remaining") \o "."


\* ------------------------------------------------------------------------
\* types.ts, utils/localStorageUtils.ts
\* ------------------------------------------------------------------------
\* ReminderOption (THIRTY_DAYS = 2592000000 lies outside TLC's integers; an
\* offset that large is skipped like ONE_DAY within the modelled horizon)
ONE_HOUR == 1 * 60 * 60 * 1000
ONE_DAY == 24 * 60 * 60 * 1000

DEFAULT_TARGET_DATE_ISO == "2026-01-21T00:00:00.000+05:30"
\* a second target, two seconds after the page is loaded
NEAR_TARGET_DATE_ISO == "2026-01-20T23:00:00.000+05:30"

\* a targetDate string the Date constructor cannot parse
INVALID_TARGET_DATE == "not-a-date"

\* !isNaN(new Date(iso).getTime())
IsValidDateString(iso) ==
  iso \in {DEFAULT_TARGET_DATE_ISO, NEAR_TARGET_DATE_ISO}

\* new Date(iso).getTime(), counted from the model epoch
DateParse(iso) ==
  CASE iso = DEFAULT_TARGET_DATE_ISO -> 3602000
    [] iso = NEAR_TARGET_DATE_ISO -> 2000

\* ------------------------------------------------------------------------
\* JSON.stringify and JSON.parse, for the values an AppSettings record holds:
\* strings, booleans, arrays of non-negative integers, null, and objects of
\* these. A parsed value is [kind |-> ..., v |-> ...].
\* ------------------------------------------------------------------------
DigitChars == {"0", "1", "2", "3", "4", "5", "6", "7", "8", "9"}

IsDigits(str) == \A i \in 1..Len(str) : SubSeq(str, i, i) \in DigitChars

DigitValue(c) ==
  CASE c = "0" -> 0 [] c = "1" -> 1 [] c = "2" -> 2 [] c = "3" -> 3
    [] c = "4" -> 4 [] c = "5" -> 5 [] c = "6" -> 6 [] c = "7" -> 7
    [] c = "8" -> 8 [] c = "9" -> 9

\* the number a string of digits denotes
RECURSIVE NatOf(_)
NatOf(str) ==
  IF Len(str) = 0 THEN 0
  ELSE 10 * NatOf(SubSeq(str, 1, Len(str) - 1))
         + DigitValue(SubSeq(str, Len(str), Len(str)))

\* the character of str at position i, "" past its end
CharAt(str, i) == IF i >= 1 /\ i <= Len(str) THEN SubSeq(str, i, i) ELSE ""

\* the quotation mark and the reverse solidus, which JSON text escapes
QUOTE == "\""
BACKSLASH == "\\"

\* the characters of a string as JSON.stringify writes them
RECURSIVE JSONQuote(_)
JSONQuote(str) ==
  IF Len(str) = 0 THEN ""
  ELSE LET c == CharAt(str, 1)
       IN (IF c \in {QUOTE, BACKSLASH} THEN BACKSLASH \o c ELSE c)
            \o JSONQuote(SubSeq(str, 2, Len(str)))

JSONString(str) == QUOTE \o JSONQuote(str) \o QUOTE

JSONBoolean(b) == IF b THEN "true" ELSE "false"

\* an array of numbers
RECURSIVE JSONArray(_)
JSONArray(list) ==
  IF Len(list) = 0 THEN ""
  ELSE IF Len(list) = 1 THEN ToString(list[1])
  ELSE ToString(list[1]) \o "," \o JSONArray(Tail(list))

\* "key":
JSONKey(key) == JSONString(key) \o ":"

\* JSON.stringify(settings): the keys in the order the object was built
JSONStringify(s) ==
  "{" \o JSONKey("title") \o JSONString(s.title)
      \o "," \o JSONKey("targetDate") \o JSONString(s.targetDate)
      \o "," \o JSONKey("startDate") \o JSONString(s.startDate)
      \o "," \o JSONKey("showSeconds") \o JSONBoolean(s.showSeconds)
      \o "," \o JSONKey("useKolkataTimezone")
             \o JSONBoolean(s.useKolkataTimezone)
      \o "," \o JSONKey("baseTheme") \o JSONString(s.baseTheme)
      \o "," \o JSONKey("colorScheme") \o JSONString(s.colorScheme)
      \o "," \o JSONKey("notificationReminders")
             \o "[" \o JSONArray(s.notificationReminders) \o "]"
      \o "," \o JSONKey("notificationEnabled")
             \o JSONBoolean(s.notificationEnabled)
      \o "}"

\* a parse that failed (JSON.parse throws a SyntaxError)
ParseFailed == [ok |-> FALSE]
Parsed(kind, v, pos) == [ok |-> TRUE, val |-> [kind |-> kind, v |-> v], pos |-> pos]

\* the characters of a string literal from position i on, up to its closing
\* quotation mark; acc holds the characters read
RECURSIVE ParseChars(_, _, _)
ParseChars(str, i, acc) ==
  LET c == CharAt(str, i)
  IN IF c = "" THEN ParseFailed
     ELSE IF c = QUOTE THEN Parsed("string", acc, i + 1)
     ELSE IF c = BACKSLASH
       THEN LET e == CharAt(str, i + 1)
            IN IF e \in {QUOTE, BACKSLASH}
                 THEN ParseChars(str, i + 2, acc \o e)
                 ELSE ParseFailed
     ELSE ParseChars(str, i + 1, acc \o c)

\* the end of the run of digits that starts at position i
RECURSIVE DigitsEnd(_, _)
DigitsEnd(str, i) ==
  IF CharAt(str, i) \in DigitChars THEN DigitsEnd(str, i + 1) ELSE i

ParseNumber(str, i) ==
  LET j == DigitsEnd(str, i)
  IN IF j = i THEN ParseFailed
     ELSE Parsed("number", NatOf(SubSeq(str, i, j - 1)), j)

\* the elements of an array from position i on; acc holds those read, n is
\* the parse of the element at position i
RECURSIVE ParseElements(_, _, _)
ElementsAfter(str, n, acc) ==
  IF ~n.ok THEN ParseFailed
  ELSE IF CharAt(str, n.pos) = ","
    THEN ParseElements(str, n.pos + 1, Append(acc, n.val.v))
  ELSE IF CharAt(str, n.pos) = "]"
    THEN Parsed("array", Append(acc, n.val.v), n.pos + 1)
  ELSE ParseFailed

ParseElements(str, i, acc) == ElementsAfter(str, ParseNumber(str, i), acc)

\* the literal lit stands at position i of str
LiteralAt(str, i, lit) ==
  /\ i + Len(lit) - 1 <= Len(str)
  /\ SubSeq(str, i, i + Len(lit) - 1) = lit

\* a value that is not an object, at position i
ParseScalar(str, i) ==
  IF CharAt(str, i) = QUOTE THEN ParseChars(str, i + 1, "")
  ELSE IF CharAt(str, i) \in DigitChars THEN ParseNumber(str, i)
  ELSE IF LiteralAt(str, i, "[]") THEN Parsed("array", <<>>, i + 2)
  ELSE IF CharAt(str, i) = "[" THEN ParseElements(str, i + 1, <<>>)
  ELSE IF LiteralAt(str, i, "true") THEN Parsed("boolean", TRUE, i + 4)
  ELSE IF LiteralAt(str, i, "false") THEN Parsed("boolean", FALSE, i + 5)
  ELSE IF LiteralAt(str, i, "null") THEN Parsed("null", 0, i + 4)
  ELSE ParseFailed

\* the members of an object from position i on; acc holds those read (a key
\* read twice keeps its last value), k is the parse of the key at position
\* i, m the parse of the value after its colon
RECURSIVE ParseMembers(_, _, _)
MembersAfterValue(str, key, m, acc) ==
  IF ~m.ok THEN ParseFailed
  ELSE IF CharAt(str, m.pos) = ","
    THEN ParseMembers(str, m.pos + 1, (key :> m.val) @@ acc)
  ELSE IF CharAt(str, m.pos) = "}"
    THEN Parsed("object", (key :> m.val) @@ acc, m.pos + 1)
  ELSE ParseFailed

MembersAfterKey(str, k, acc) ==
  IF ~k.ok THEN ParseFailed
  ELSE IF CharAt(str, k.pos) # ":" THEN ParseFailed
  ELSE MembersAfterValue(str, k.val.v, ParseScalar(str, k.pos + 1), acc)

ParseMembers(str, i, acc) ==
  IF CharAt(str, i) # QUOTE THEN ParseFailed
  ELSE MembersAfterKey(str, ParseChars(str, i + 1, ""), acc)

\* the object with no members
EmptyObject == [k \in {} |-> 0]

\* the value parsed, when the parse r succeeded and consumed all of text
WholeText(text, r) ==
  IF r.ok THEN (IF r.pos = Len(text) + 1 THEN r.val ELSE [error |-> TRUE])
  ELSE [error |-> TRUE]

\* JSON.parse(text): [kind, v], or [error |-> TRUE] for the SyntaxError
JSONParse(text) ==
  WholeText(text,
            IF LiteralAt(text, 1, "{}") THEN Parsed("object", EmptyObject, 3)
            ELSE IF CharAt(text, 1) = "{"
              THEN ParseMembers(text, 2, EmptyObject)
            ELSE ParseScalar(text, 1))

\* ------------------------------------------------------------------------
\* utils/localStorageUtils.ts
\* ------------------------------------------------------------------------
\* new Date().toISOString() when the module is loaded (the model epoch)
DEFAULT_START_DATE_ISO == "2026-01-20T17:29:58.000Z"

\* the record loadSettings returns when nothing usable is stored
DefaultSettings ==
  [title |-> "JEE Exam", targetDate |-> DEFAULT_TARGET_DATE_ISO,
   startDate |-> DEFAULT_START_DATE_ISO, showSeconds |-> TRUE,
   useKolkataTimezone |-> TRUE, baseTheme |-> "dark",
   colorScheme |-> "blue-ocean",
   notificationReminders |-> <<ONE_DAY, ONE_HOUR>>,
   notificationEnabled |-> FALSE]

\* localStorage.getItem(STORAGE_KEY) returning null
NoItem == <<>>

\* the texts found under STORAGE_KEY when the page is opened
StoredChoices ==
  { NoItem,
    <<"{\"targetDate\":\"2026-01-20T23:00:00.000+05:30\","
        \o "\"notificationReminders\":[1000,5000],"
        \o "\"notificationEnabled\":true}">>,
    <<"{\"title\":\"Mock Test\","
        \o "\"targetDate\":\"2026-01-20T23:00:00.000+05:30\","
        \o "\"notificationReminders\":[1000,1000],"
        \o "\"notificationEnabled\":false}">>,
    <<"{\"targetDate\":\"2026-01-20T23:00:00.000+05:30\","
        \o "\"notificationReminders\":[500,1000],"
        \o "\"notificationEnabled\":true}">>,
    <<"{\"targetDate\":\"not-a-date\","
        \o "\"notificationReminders\":[1000],"
        \o "\"notificationEnabled\":true}">> }

\* parsed.key || fallback
FieldOr(parsed, key, fallback) ==
  IF /\ key \in DOMAIN parsed
     /\ parsed[key].kind # "null"
     /\ ~(parsed[key].kind = "string" /\ parsed[key].v = "")
     /\ ~(parsed[key].kind = "boolean" /\ ~parsed[key].v)
     /\ ~(parsed[key].kind = "number" /\ parsed[key].v = 0)
    THEN parsed[key].v ELSE fallback

\* parsed.key ?? fallback
Field(parsed, key, fallback) ==
  IF key \in DOMAIN parsed /\ parsed[key].kind # "null"
    THEN parsed[key].v ELSE fallback

\* the value loadSettings builds from parsedSettings
FromParsed(parsed) ==
  [title |-> Field(parsed, "title", "JEE Exam"),
   targetDate |-> Field(parsed, "targetDate", DEFAULT_TARGET_DATE_ISO),
   startDate |-> Field(parsed, "startDate", DEFAULT_START_DATE_ISO),
   showSeconds |-> Field(parsed, "showSeconds", TRUE),
   useKolkataTimezone |-> TRUE,
   baseTheme |-> "dark",
   colorScheme |-> Field(parsed, "colorScheme", "blue-ocean"),
   notificationReminders |->
     Field(parsed, "notificationReminders", <<ONE_DAY, ONE_HOUR>>),
   notificationEnabled |-> Field(parsed, "notificationEnabled", FALSE)]

\* how the try block of a function ended when it did not return a value: an
\* exception was thrown, or the block ran to its end
Thrown == [thrown |-> TRUE]
FellThrough == [fellThrough |-> TRUE]

\* the try block of loadSettings from JSON.parse on: parsedSettings is what
\* JSON.parse returned, or its SyntaxError; reading a property of null
\* throws a TypeError
AfterParse(parsedSettings) ==
  IF "error" \in DOMAIN parsedSettings THEN Thrown
  ELSE IF parsedSettings.kind = "null" THEN Thrown
  ELSE IF parsedSettings.kind # "object" THEN FromParsed(EmptyObject)
  ELSE FromParsed(parsedSettings.v)

\* the try block of loadSettings. item is what localStorage holds under
\* STORAGE_KEY (NoItem or <<text>>), readable whether getItem works.
TryLoad(item, readable) ==
  IF ~readable THEN Thrown
  ELSE IF item = NoItem \/ item = <<"">> THEN FellThrough
  ELSE AfterParse(JSONParse(item[1]))

\* the statements after the try block, with no catch before them: the
\* exception reaches the caller
AfterTryUncaught(r) == IF r = FellThrough THEN DefaultSettings ELSE r

\* catch (e), and the statements after the try block
AfterTry(r) == IF r = FellThrough \/ r = Thrown THEN DefaultSettings ELSE r

\* loadSettings with no catch
loadSettingsUncaught(item, readable) == AfterTryUncaught(TryLoad(item, readable))

\* loadSettings()
loadSettings(item, readable) == AfterTry(TryLoad(item, readable))

\* saveSettings(settings): what localStorage holds afterwards and how the
\* call ended; writable is whether setItem works (its exception is caught)
saveSettings(s, item, writable) ==
  IF writable THEN [item |-> <<JSONStringify(s)>>, outcome |-> "returned"]
  ELSE [item |-> item, outcome |-> "returned"]

\* ------------------------------------------------------------------------
\* App.tsx: state of the component and of the browser around it
\* ------------------------------------------------------------------------
VARIABLES
  mounted,                 \* the component is mounted
  settings,                \* useState(loadSettings)
  countdown,               \* CountdownTime | null: <<>> or <<record>>
  notificationPermission,  \* the permission the component tracks
  notificationAlert,       \* string | null: <<>> or <<text>>
  showSettings,            \* settings panel visible
  notificationTimersRef,   \* handles pushed by the last scheduleNotifications
  clock,                   \* browser: new Date().getTime()
  tickDue,                 \* browser: when the setInterval callback is next due
  hasNotificationAPI,      \* browser: 'Notification' in window
  lastToggle,              \* the user: <<position the switch was last left in>>
  permRequests,            \* browser: requestPermission() promises in flight
  timers,                  \* browser: setTimeout callbacks not yet run or cleared
  nextTimerId,             \* browser: next handle setTimeout returns
  schedNow,                \* nowMs read by the last scheduleNotifications
  notified,                \* every reminder callback that has run
  calcTarget,              \* input of calculateCountdown under SpecCalc
  calcNow,                 \* input of calculateCountdown under SpecCalc
  calcResult,              \* its result: <<>> or <<record>>
  calcReverse,             \* calculateCountdown(now, target): <<>> or <<record>>
  fmtCountdown,            \* the countdown handed to the formatters: <<>> or <<record>>
  fmtShowSeconds,          \* the showSeconds argument of formatTime
  fmtTime,                 \* result of formatTime: <<>> or <<string>>
  fmtHuman,                \* result of formatHumanReadable: <<>> or <<string>>
  tzHost,                  \* the zone of the host (TIMEZONE_BROWSER)
  tzZone,                  \* the timezone argument of the two conversions
  tzInstant,               \* the Date to format: <<>> or <<date>>
  tzText,                  \* the datetime-local string: <<>> or <<string>>
  tzParsed,                \* the Date parsed from tzText: <<>> or <<date>>
  tzValid,                 \* result of isValidDateInput on tzText: <<>> or <<bool>>
  storeItem,               \* localStorage: the text under STORAGE_KEY, or NoItem
  storeReadable,           \* localStorage: getItem works (does not throw)
  storeWritable,           \* localStorage: setItem works (does not throw)
  storeSettings,           \* the settings held in memory
  storeSaved,              \* how saveSettings(storeSettings) ended: <<>> or <<outcome>>
  storeLoaded              \* what loadSettings() returned: <<>> or <<settings>>

appVars == <<mounted, settings, countdown, notificationPermission,
             notificationAlert, showSettings, notificationTimersRef, clock,
             tickDue, hasNotificationAPI, lastToggle, permRequests, timers,
             nextTimerId,
             schedNow, notified>>
fmtVars == <<fmtCountdown, fmtShowSeconds, fmtTime, fmtHuman>>
tzVars == <<tzHost, tzZone, tzInstant, tzText, tzParsed, tzValid>>
storeVars == <<storeItem, storeReadable, storeWritable, storeSettings,
               storeSaved, storeLoaded>>
calcVars == <<calcTarget, calcNow, calcResult, calcReverse, fmtVars, tzVars,
              storeVars>>
vars == <<appVars, calcVars>>

Permissions == {"default", "granted", "denied"}
\* steps by which the modelled clock moves
ClockDeltas == {1000, 2000}
\* the reminder checkboxes the model ticks
ReminderChoices == {ONE_HOUR}
\* ?title= and ?target= of the page URL ("" when the parameter is absent)
UrlChoices ==
  { [title |-> "", target |-> ""],
    [title |-> "", target |-> NEAR_TARGET_DATE_ISO],
    [title |-> "", target |-> INVALID_TARGET_DATE] }

\* setInterval(updateCountdown, 1000)
TICK_INTERVAL_MS == 1000

Range(seq) == {seq[i] : i \in 1..Len(seq)}

\* const targetDate = new Date(settings.targetDate)
TargetMs(s) == DateParse(s.targetDate)

\* calculateCountdown of an Invalid Date: totalMs, days, hours, minutes and
\* seconds are all NaN, and isPast is NaN < 0, which is false
NaNCountdown == [nan |-> TRUE, isPast |-> FALSE]

\* updateCountdown: calculateCountdown(targetDate, currentTime), handed to
\* setCountdown
updateCountdown(s, nowMs) ==
  IF IsValidDateString(s.targetDate)
    THEN <<calculateCountdown(TargetMs(s), nowMs)>>
    ELSE <<NaNCountdown>>

\* countdown?.isPast
IsPast(cd) == Len(cd) > 0 /\ cd[1].isPast

\* clearTimeout(notificationTimersRef.current[0]): only the first handle
ClearFirstTimer(tms, ref) ==
  {t \in tms : Len(ref) = 0 \/ t.id # ref[1]}

\* notificationTimersRef.current.forEach(clearTimeout)
ClearTimers(tms, ref) == {t \in tms : t.id \notin Range(ref)}

\* the early return with the tracked permission left out of its test
ShouldScheduleIgnoringPermission(s, perm, cd) ==
  ~(~s.notificationEnabled \/ IsPast(cd))

\* the early return of scheduleNotifications, negated
ShouldSchedule(s, perm, cd) ==
  ~(~s.notificationEnabled \/ perm # "granted" \/ IsPast(cd))

\* if (reminderTime >= nowMs)
IsFutureOrNow(reminderTime, nowMs) == reminderTime >= nowMs

\* if (reminderTime > nowMs)
IsFuture(reminderTime, nowMs) == reminderTime > nowMs

\* settings.notificationReminders.forEach(...), from entry i on; acc holds the
\* browser's timers, the ref and the next handle. With an Invalid Date as
\* target, reminderTime is NaN and NaN > nowMs is false.
RECURSIVE ArmReminders(_, _, _, _)
ArmReminders(i, s, nowMs, acc) ==
  IF i > Len(s.notificationReminders) THEN acc
  ELSE LET reminderOffset == s.notificationReminders[i]
           reminderTime == TargetMs(s) - reminderOffset
           timer == [id |-> acc.next, armedAt |-> nowMs,
                     delay |-> reminderTime - nowMs,
                     reminderTime |-> reminderTime, targetMs |-> TargetMs(s),
                     title |-> s.title, offset |-> reminderOffset, idx |-> i]
       IN IF IsValidDateString(s.targetDate) /\ IsFuture(reminderTime, nowMs)
            THEN ArmReminders(i + 1, s, nowMs,
                   [timers |-> acc.timers \cup {timer},
                    ref |-> Append(acc.ref, timer.id),
                    next |-> acc.next + 1])
            ELSE ArmReminders(i + 1, s, nowMs, acc)

\* scheduleNotifications() without its first two statements: the ref is
\* reset but the timers it held are not cleared
scheduleNotificationsKeepingOld(s, perm, cd, tms, ref, next, nowMs) ==
  LET start == [timers |-> tms, ref |-> <<>>, next |-> next]
  IN IF ShouldSchedule(s, perm, cd) THEN ArmReminders(1, s, nowMs, start)
     ELSE start

\* scheduleNotifications() of the render whose state is (s, perm, cd)
scheduleNotifications(s, perm, cd, tms, ref, next, nowMs) ==
  LET start == [timers |-> ClearTimers(tms, ref), ref |-> <<>>, next |-> next]
  IN IF ShouldSchedule(s, perm, cd) THEN ArmReminders(1, s, nowMs, start)
     ELSE start

\* A render and its effects. targetDate is a new Date object in every render,
\* so scheduleNotifications is a new callback in every render and the effect
\* that calls it runs after every render.
Render(s, perm, cd, tms) ==
  LET r == scheduleNotifications(s, perm, cd, tms, notificationTimersRef,
                                 nextTimerId, clock)
  IN /\ r.next <= MaxTimerId + 1
     /\ timers' = r.timers
     /\ notificationTimersRef' = r.ref
     /\ nextTimerId' = r.next
     /\ schedNow' = clock

\* the alert texts of requestNotificationPermission
UNSUPPORTED_ALERT == "Your browser does not support notifications."
DENIED_ALERT ==
  "Notification permission denied. Please enable it in browser settings."

\* the URL parameter effect: setSettings(prev => ({...prev, title: titleParam
\* || prev.title, targetDate: targetParam || prev.targetDate, ...}))
ApplyUrlParams(prev, url) ==
  IF url.title # "" \/ url.target # ""
    THEN [prev EXCEPT !.title = IF url.title # "" THEN url.title ELSE @,
                      !.targetDate = IF url.target # "" THEN url.target ELSE @]
    ELSE prev

\* The state once the component has mounted and its first effects have run
\* (the switch stands where the stored settings left it):
\* settings loaded and overridden by the URL, the first updateCountdown(),
\* the permission effect of the first render (permission is 'default'), and
\* scheduleNotifications() of the last render.
Init ==
  \E stored \in StoredChoices, url \in UrlChoices, api \in BOOLEAN :
    LET loaded == loadSettings(stored, TRUE)
        s == ApplyUrlParams(loaded, url)
        requested == loaded.notificationEnabled
        perm == IF requested /\ ~api THEN "denied" ELSE "default"
        cd == updateCountdown(s, 0)
        r == scheduleNotifications(s, perm, cd, {}, <<>>, 1, 0)
    IN /\ mounted = TRUE
       /\ settings = s
       /\ countdown = cd
       /\ notificationPermission = perm
       /\ notificationAlert =
            (IF requested /\ ~api THEN <<UNSUPPORTED_ALERT>> ELSE <<>>)
       /\ showSettings = FALSE
       /\ notificationTimersRef = r.ref
       /\ clock = 0
       /\ tickDue = TICK_INTERVAL_MS
       /\ hasNotificationAPI = api
       /\ lastToggle = <<loaded.notificationEnabled>>
       /\ permRequests = (IF requested /\ api THEN 1 ELSE 0)
       /\ timers = r.timers
       /\ nextTimerId = r.next
       /\ schedNow = 0
       /\ notified = {}
       /\ calcTarget = 0 /\ calcNow = 0 /\ calcResult = <<>>
       /\ calcReverse = <<>>
       /\ fmtCountdown = <<>> /\ fmtShowSeconds = FALSE
       /\ fmtTime = <<>> /\ fmtHuman = <<>>
       /\ tzHost = "UTC" /\ tzZone = "Asia/Kolkata"
       /\ tzInstant = <<>> /\ tzText = <<>> /\ tzParsed = <<>>
       /\ tzValid = <<>>
       /\ storeItem = NoItem /\ storeReadable = TRUE /\ storeWritable = TRUE
       /\ storeSettings = DefaultSettings
       /\ storeSaved = <<>> /\ storeLoaded = <<>>

\* time passes in the browser (the clock is read by the component's
\* callbacks only: once nothing is left to run, its reading is not followed)
AdvanceClock ==
  \E d \in ClockDeltas :
    /\ mounted \/ timers # {}
    /\ clock + d <= MaxClock
    /\ clock' = clock + d
    /\ UNCHANGED <<mounted, settings, countdown, notificationPermission,
                   notificationAlert, showSettings, notificationTimersRef,
                   tickDue, hasNotificationAPI, lastToggle,
                   permRequests, timers, nextTimerId, schedNow, notified>>
    /\ UNCHANGED calcVars

\* the setInterval callback: updateCountdown(), then the render it causes
Tick ==
  /\ mounted
  /\ clock >= tickDue
  /\ countdown' = updateCountdown(settings, clock)
  /\ tickDue' = clock + TICK_INTERVAL_MS
  /\ Render(settings, notificationPermission, countdown', timers)
  /\ UNCHANGED <<mounted, settings, notificationPermission, notificationAlert,
                 showSettings, clock, hasNotificationAPI, lastToggle,
                 permRequests, notified>>
  /\ UNCHANGED calcVars

\* new Date(): the clock read again when the callback runs
ReminderDateAtFire(t, fireNow) == fireNow

\* the instant the reminder callback describes: new Date(reminderTime)
ReminderDate(t, fireNow) == t.reminderTime

\* the callback without its permission test
CanNotifyAlways(bp) == TRUE

\* Notification.permission === 'granted' inside the reminder callback
CanNotify(bp) == bp = "granted"

\* the body of the setTimeout callback, run at clock reading fireNow
ReminderCallback(t, fireNow, bp) ==
  LET timeUntil == calculateCountdown(t.targetMs, ReminderDate(t, fireNow))
      humanReadable == formatHumanReadable(timeUntil)
  IN IF CanNotify(bp)
       THEN [timer |-> t, firedAt |-> fireNow, permission |-> bp,
             channel |-> "system", human |-> humanReadable,
             title |-> "JEE Exam Reminder: " \o t.title,
             body |-> humanReadable \o " - The exam is approaching!"]
       ELSE [timer |-> t, firedAt |-> fireNow, permission |-> bp,
             channel |-> "alert", human |-> humanReadable,
             title |-> t.title,
             body |-> "Reminder: " \o humanReadable \o " - " \o t.title
                      \o " is approaching!"]

\* a repeating timer (setInterval) stays in the browser's list
AfterFiringKept(tms, t) == tms

\* the browser removes a timeout from its list once its callback has run
AfterFiring(tms, t) == tms \ {t}

\* a reminder timer fires while Notification.permission reads bp (the user
\* may have changed it in the browser since it was granted);
\* setNotificationAlert with a new text renders again
Fire ==
  \E t \in timers, bp \in {"granted", "denied"} :
    /\ clock >= t.armedAt + t.delay
    /\ LET n == ReminderCallback(t, clock, bp)
           alert == IF n.channel = "alert" /\ mounted
                      THEN <<n.body>> ELSE notificationAlert
       IN /\ notified' = notified \cup {n}
          /\ notificationAlert' = alert
          /\ IF alert # notificationAlert
               THEN Render(settings, notificationPermission, countdown,
                           AfterFiring(timers, t))
               ELSE /\ timers' = AfterFiring(timers, t)
                    /\ UNCHANGED <<notificationTimersRef, nextTimerId, schedNow>>
    /\ UNCHANGED <<mounted, settings, countdown, notificationPermission,
                   showSettings, clock, tickDue, hasNotificationAPI, lastToggle,
                   permRequests>>
    /\ UNCHANGED calcVars

\* the settings button: setShowSettings(!showSettings), then a render
ToggleShowSettings ==
  /\ mounted
  /\ showSettings' = ~showSettings
  /\ Render(settings, notificationPermission, countdown, timers)
  /\ UNCHANGED <<mounted, settings, countdown, notificationPermission,
                 notificationAlert, clock, tickDue, hasNotificationAPI,
                 lastToggle,
                 permRequests, notified>>
  /\ UNCHANGED calcVars

\* the "Enable Notifications" switch of the settings panel (rendered while
\* showSettings holds): handleSettingsChange, then
\* requestNotificationPermission() when switched on without a granted
\* permission, then the permission effect of the render
ToggleNotifications ==
  LET checked == ~settings.notificationEnabled
      s == [settings EXCEPT !.notificationEnabled = checked]
      byHandler == checked /\ notificationPermission # "granted"
      perm == IF byHandler /\ ~hasNotificationAPI THEN "denied"
              ELSE notificationPermission
      byEffect == s.notificationEnabled /\ perm = "default"
      asked == (IF byHandler /\ hasNotificationAPI THEN 1 ELSE 0)
               + (IF byEffect /\ hasNotificationAPI THEN 1 ELSE 0)
  IN /\ mounted
     /\ showSettings
     /\ permRequests + asked <= MaxRequests
     /\ settings' = s
     /\ notificationPermission' = perm
     /\ notificationAlert' = (IF byHandler /\ ~hasNotificationAPI
                               THEN <<UNSUPPORTED_ALERT>> ELSE notificationAlert)
     /\ permRequests' = permRequests + asked
     /\ lastToggle' = <<checked>>
     /\ Render(s, perm, countdown, timers)
     /\ UNCHANGED <<mounted, countdown, showSettings, clock, tickDue,
                    hasNotificationAPI, notified>>
     /\ UNCHANGED calcVars

\* a Notification.requestPermission() promise resolves with p and
\* requestNotificationPermission() continues after its await
ResolvePermission ==
  \E p \in Permissions :
    LET s == [settings EXCEPT !.notificationEnabled = (p = "granted")]
    IN /\ mounted
       /\ permRequests > 0
       /\ permRequests' = permRequests - 1
       /\ notificationPermission' = p
       /\ notificationAlert' = (IF p = "denied" THEN <<DENIED_ALERT>> ELSE <<>>)
       /\ settings' = s
       /\ Render(s, p, countdown, timers)
       /\ UNCHANGED <<mounted, countdown, showSettings, clock, tickDue,
                      hasNotificationAPI, lastToggle, notified>>
       /\ UNCHANGED calcVars

\* the "Try to enable notifications" button of the alert box, shown while an
\* alert is set and the tracked permission is 'denied':
\* requestNotificationPermission(). Where the browser has no Notification
\* API the click sets the permission and the alert to what they already
\* are, and nothing renders.
RetryPermission ==
  /\ mounted
  /\ notificationAlert # <<>>
  /\ notificationPermission = "denied"
  /\ hasNotificationAPI
  /\ permRequests < MaxRequests
  /\ permRequests' = permRequests + 1
  /\ UNCHANGED <<mounted, settings, countdown, notificationPermission,
                 notificationAlert, showSettings, notificationTimersRef,
                 clock, tickDue, hasNotificationAPI, lastToggle, timers,
                 nextTimerId, schedNow, notified>>
  /\ UNCHANGED calcVars

\* the titles typed into the "Exam Title" input
TitleChoices == {"Mock Test"}

\* the "Exam Title" input of the settings panel:
\* handleSettingsChange('title', e.target.value), then a render
HandleTitleChange ==
  \E title \in TitleChoices :
    LET s == [settings EXCEPT !.title = title]
    IN /\ mounted
       /\ showSettings
       /\ title # settings.title
       /\ settings' = s
       /\ Render(s, notificationPermission, countdown, timers)
       /\ UNCHANGED <<mounted, countdown, notificationPermission,
                      notificationAlert, showSettings, clock, tickDue,
                      hasNotificationAPI, lastToggle, permRequests,
                      notified>>
       /\ UNCHANGED calcVars

\* [...new Set(list)]: first occurrences, in order
RECURSIVE Dedupe(_)
Dedupe(list) ==
  IF Len(list) = 0 THEN <<>>
  ELSE LET front == Dedupe(SubSeq(list, 1, Len(list) - 1))
           last == list[Len(list)]
       IN IF last \in Range(front) THEN front ELSE Append(front, last)

\* list.filter(r => r !== reminder)
RECURSIVE Without(_, _)
Without(list, reminder) ==
  IF Len(list) = 0 THEN <<>>
  ELSE IF Head(list) = reminder THEN Without(Tail(list), reminder)
  ELSE <<Head(list)>> \o Without(Tail(list), reminder)

\* a reminder checkbox of the settings panel (shown while enabled with
\* permission granted):
\* handleReminderChange(reminder, !includes(reminder)), then a render
HandleReminderChange ==
  \E reminder \in ReminderChoices :
    LET isChecked == reminder \notin Range(settings.notificationReminders)
        newReminders ==
          IF isChecked
            THEN Dedupe(Append(settings.notificationReminders, reminder))
            ELSE Without(settings.notificationReminders, reminder)
        s == [settings EXCEPT !.notificationReminders = newReminders]
    IN /\ mounted
       /\ showSettings
       /\ settings.notificationEnabled
       /\ notificationPermission = "granted"
       /\ settings' = s
       /\ Render(s, notificationPermission, countdown, timers)
       /\ UNCHANGED <<mounted, countdown, notificationPermission,
                      notificationAlert, showSettings, clock, tickDue,
                      hasNotificationAPI, lastToggle, permRequests,
                      notified>>
       /\ UNCHANGED calcVars

\* The component unmounts: clearInterval, and the cleanup that clears the
\* timers of notificationTimersRef. React drops the component's state, and a
\* permission promise that resolves later sets state of a component that is
\* gone, which React ignores; the settings stay as saveSettings stored them.
Unmount ==
  /\ mounted
  /\ mounted' = FALSE
  /\ timers' = ClearTimers(timers, notificationTimersRef)
  /\ countdown' = <<>>
  /\ notificationPermission' = "default"
  /\ notificationAlert' = <<>>
  /\ showSettings' = FALSE
  /\ permRequests' = 0
  /\ tickDue' = 0
  /\ schedNow' = 0
  /\ lastToggle' = <<>>
  /\ UNCHANGED <<settings, notificationTimersRef, clock, hasNotificationAPI,
                 nextTimerId, notified>>
  /\ UNCHANGED calcVars

Next ==
  \/ AdvanceClock
  \/ Tick
  \/ Fire
  \/ ToggleShowSettings
  \/ ToggleNotifications
  \/ ResolvePermission
  \/ RetryPermission
  \/ HandleTitleChange
  \/ HandleReminderChange
  \/ Unmount

Spec == Init /\ [][Next]_vars

\* ------------------------------------------------------------------------
\* Properties of the reminder scheduling (checked under Spec)
\* ------------------------------------------------------------------------
\* the timers the last scheduleNotifications armed: still pending, or run
LastArmed ==
  {t \in timers : t.id \in Range(notificationTimersRef)}
  \cup {n.timer : n \in {m \in notified :
                         m.timer.id \in Range(notificationTimersRef)}}

\* a pending timer without its handle
TimerView(t) ==
  [idx |-> t.idx, offset |-> t.offset, reminderTime |-> t.reminderTime,
   delay |-> t.delay, targetMs |-> t.targetMs, title |-> t.title]
PendingView == {TimerView(t) : t \in timers}

\* the condition under which scheduleNotifications goes on to arm timers
Active ==
  /\ settings.notificationEnabled
  /\ notificationPermission = "granted"
  /\ ~(countdown # <<>> /\ countdown[1].isPast)

\* every pending timer was armed by the last run, one per entry of the list
OnlyLastRunPending ==
  mounted =>
    /\ \A t \in timers :
         t.id \in Range(notificationTimersRef) /\ t.armedAt = schedNow
    /\ \A t1, t2 \in timers : t1.idx = t2.idx => t1 = t2

\* a second run at the same clock reading on the same inputs (the settings
\* button re-renders and changes nothing the scheduler reads)
SameInputsRerun ==
  (mounted /\ mounted' /\ showSettings' # showSettings /\ schedNow = clock) =>
    PendingView' = PendingView

\* C1: rescheduling is idempotent. Every run clears the timers armed before,
\* so every pending timer comes from the last run (never two pending timers
\* of one reminder from different runs), and running scheduleNotifications
\* again on the same target, offsets, enablement, permission and clock
\* leaves the same pending timers as the first run.
RescheduleIdempotent == [](OnlyLastRunPending) /\ [][SameInputsRerun]_vars

\* C1 witness: a second run in a row has re-armed the one pending timer
RescheduleWitness ==
  /\ mounted /\ showSettings
  /\ schedNow = clock
  /\ Cardinality(timers) = 1
  /\ nextTimerId > 2

OffsetsDeduplicated ==
  \A t1, t2 \in timers : t1.offset = t2.offset => t1 = t2

\* C4: when a reminder timer fires its callback runs and that timer leaves
\* the pending set: n pending before, n - 1 pending after.
FiringRemovesOne ==
  [][notified' # notified =>
       /\ Cardinality(notified') = Cardinality(notified) + 1
       /\ Cardinality(timers') = Cardinality(timers) - 1]_vars

BodyFromFireClock ==
  \A n \in notified :
    n.human = formatHumanReadable(calculateCountdown(n.timer.targetMs, n.firedAt))

\* C6 as amended: the body describes the time from the nominal instant
\* target - offset, fixed when the timer was armed, to the target, whatever
\* the clock reads when the callback runs.
BodyFromNominalInstant ==
  \A n \in notified :
    /\ n.human = formatHumanReadable(
                   calculateCountdown(n.timer.targetMs,
                                      n.timer.targetMs - n.timer.offset))
    /\ n.channel = "system" => n.body = n.human \o " - The exam is approaching!"
    /\ n.channel = "alert" =>
         n.body = "Reminder: " \o n.human \o " - " \o n.timer.title
                  \o " is approaching!"

\* C6 witness: the one-hour reminder ran a second late and still says one hour
BodyFromNominalWitness ==
  \E n \in notified :
    /\ n.timer.offset = ONE_HOUR
    /\ n.firedAt = n.timer.reminderTime + 1000
    /\ n.human = "1 hour remaining."

\* C7: cancellation releases every armed timer. A callback that runs belongs
\* to a timer the last run armed, while the component is mounted; after the
\* unmount no timer is pending; clearing an empty ref changes nothing.
CancelledNeverFire ==
  /\ [](~mounted => timers = {})
  /\ [](ClearTimers(timers, <<>>) = timers)
  /\ [][\A n \in notified' \ notified :
          /\ mounted
          /\ n.timer.id \in Range(notificationTimersRef)
          /\ n.timer.armedAt = schedNow]_vars

\* C7 witness: the component unmounted while a timer of the last run had
\* not run yet, and that timer is gone
CancelledWitness ==
  /\ ~mounted
  /\ timers = {}
  /\ \E i \in 1..Len(notificationTimersRef) :
       \A n \in notified : n.timer.id # notificationTimersRef[i]

\* C8: a delivery failure is recovered locally: when a timer fires while the
\* browser permission is not 'granted', no system notification is created,
\* the in-app alert is set instead, and no timer is armed again for it.
FallbackToAlert ==
  [][\A n \in notified' \ notified :
       n.permission # "granted" =>
         /\ n.channel = "alert"
         /\ mounted' /\ notificationAlert' = <<n.body>>
         /\ n.body = "Reminder: " \o n.human \o " - " \o n.timer.title
                     \o " is approaching!"
         /\ \A t \in timers' :
              ~(t.targetMs = n.timer.targetMs /\ t.offset = n.timer.offset)]_vars

\* C8 witness: the alert shows a reminder while the tracked permission is
\* still 'granted'
FallbackWitness ==
  /\ mounted
  /\ notificationPermission = "granted"
  /\ \E n \in notified : n.channel = "alert" /\ notificationAlert = <<n.body>>

\* ------------------------------------------------------------------------
\* calculateCountdown on its own: inputs drawn from bounded sets
\* ------------------------------------------------------------------------
CalcDays == 0..MaxDays
CalcHours == {0, 1, 23}
CalcMinutes == {0, 6, 59}
CalcSeconds == {0, 5, 7, 59}
CalcFractions == {0, 500, 999}
CalcNows == {0, 43200000}

\* now + (((d*24+h)*60+m)*60+s)*1000 + f, as an offset from now
Compose(d, h, m, sec, f) == (((d * 24 + h) * 60 + m) * 60 + sec) * 1000 + f

\* no component is mounted while the pure functions are exercised
NoApp ==
  /\ mounted = FALSE
  /\ settings = loadSettings(NoItem, TRUE)
  /\ countdown = <<>>
  /\ notificationPermission = "default"
  /\ notificationAlert = <<>>
  /\ showSettings = FALSE
  /\ notificationTimersRef = <<>>
  /\ clock = 0
  /\ tickDue = 0
  /\ hasNotificationAPI = TRUE
  /\ lastToggle = <<>>
  /\ permRequests = 0
  /\ timers = {}
  /\ nextTimerId = 1
  /\ schedNow = 0
  /\ notified = {}

\* nothing is being saved or loaded
NoStore ==
  /\ storeItem = NoItem
  /\ storeReadable = TRUE
  /\ storeWritable = TRUE
  /\ storeSettings = DefaultSettings
  /\ storeSaved = <<>>
  /\ storeLoaded = <<>>

\* no conversion between a Date and a datetime-local string is under way
NoTz ==
  /\ tzHost = "UTC"
  /\ tzZone = "Asia/Kolkata"
  /\ tzInstant = <<>>
  /\ tzText = <<>>
  /\ tzParsed = <<>>
  /\ tzValid = <<>>

\* no countdown has been handed to the formatters
NoFormat ==
  /\ fmtCountdown = <<>>
  /\ fmtShowSeconds = FALSE
  /\ fmtTime = <<>>
  /\ fmtHuman = <<>>

InitCalc ==
  /\ NoApp
  /\ NoStore
  /\ NoFormat
  /\ NoTz
  /\ calcReverse = <<>>
  /\ \E d \in CalcDays, h \in CalcHours, m \in CalcMinutes, sec \in CalcSeconds,
        f \in CalcFractions, n \in CalcNows, past \in BOOLEAN :
       /\ calcNow = n
       /\ calcTarget = (IF past THEN n - Compose(d, h, m, sec, f)
                                ELSE n + Compose(d, h, m, sec, f))
  /\ calcResult = <<>>

\* calculateCountdown(new Date(calcTarget), new Date(calcNow))
Calculate ==
  /\ calcResult = <<>>
  /\ calcResult' = <<calculateCountdown(calcTarget, calcNow)>>
  /\ UNCHANGED <<calcTarget, calcNow, calcReverse, fmtVars, tzVars>>
  /\ UNCHANGED appVars
  /\ UNCHANGED storeVars

\* calculateCountdown(new Date(calcNow), new Date(calcTarget)): the two
\* instants exchanged
CalculateReversed ==
  /\ calcReverse = <<>>
  /\ calcReverse' = <<calculateCountdown(calcNow, calcTarget)>>
  /\ UNCHANGED <<calcTarget, calcNow, calcResult, fmtVars, tzVars>>
  /\ UNCHANGED appVars
  /\ UNCHANGED storeVars

NextCalc == Calculate \/ CalculateReversed

SpecCalc == InitCalc /\ [][NextCalc]_vars

CountdownAntisymmetric ==
  (calcResult # <<>> /\ calcReverse # <<>>) =>
    LET a == calcResult[1]
        b == calcReverse[1]
    IN /\ a.totalMs = -b.totalMs
       /\ a.days = b.days /\ a.hours = b.hours
       /\ a.minutes = b.minutes /\ a.seconds = b.seconds
       /\ (calcTarget # calcNow => a.isPast = ~b.isPast)
       /\ (calcTarget = calcNow =>
             /\ ~a.isPast /\ ~b.isPast
             /\ a.totalMs = 0
             /\ a.days = 0 /\ a.hours = 0 /\ a.minutes = 0 /\ a.seconds = 0)

\* C11 witness: both directions have been computed for two equal instants
CountdownAntisymmetricWitness ==
  /\ calcResult # <<>> /\ calcReverse # <<>>
  /\ calcTarget = calcNow
  /\ ~calcResult[1].isPast

\* ------------------------------------------------------------------------
\* formatTime and formatHumanReadable on their own: the countdown is either
\* the result of calculateCountdown or a CountdownTime written out field by
\* field, as the callers of the formatters may build it
\* ------------------------------------------------------------------------
FormatTotals == {0, 500, -500, 999, -999, 1000, -1000, 30000, -100000000}
FormatDays == {0, 1, 2, 10, 99, 100, 366}
FormatHours == {0, 1, 5, 23}
FormatMinutes == {0, 1, 59}
FormatSeconds == {0, 30}

\* createCountdown(days, hours, minutes, seconds, isPast, totalMs)
FormatLiterals ==
  [totalMs : FormatTotals, days : FormatDays, hours : FormatHours,
   minutes : FormatMinutes, seconds : FormatSeconds, isPast : BOOLEAN]

InitFormat ==
  /\ NoApp
  /\ NoStore
  /\ NoTz
  /\ calcReverse = <<>>
  /\ calcResult = <<>>
  /\ fmtShowSeconds \in BOOLEAN
  /\ fmtTime = <<>>
  /\ fmtHuman = <<>>
  /\ \/ /\ \E d \in CalcDays, h \in CalcHours, m \in CalcMinutes,
              sec \in CalcSeconds, f \in CalcFractions, past \in BOOLEAN :
              /\ calcNow = 0
              /\ calcTarget = (IF past THEN 0 - Compose(d, h, m, sec, f)
                                       ELSE Compose(d, h, m, sec, f))
        /\ fmtCountdown = <<>>
     \/ /\ calcNow = 0
        /\ calcTarget = 0
        /\ \E lit \in FormatLiterals : fmtCountdown = <<lit>>

\* const countdown = calculateCountdown(targetDate, now): the result is the
\* countdown the formatters are given
PassCountdown ==
  /\ calcResult # <<>>
  /\ fmtCountdown = <<>>
  /\ fmtCountdown' = calcResult
  /\ UNCHANGED <<fmtShowSeconds, fmtTime, fmtHuman>>
  /\ UNCHANGED <<calcTarget, calcNow, calcResult, calcReverse, tzVars>>
  /\ UNCHANGED appVars
  /\ UNCHANGED storeVars

\* formatTime(countdown, showSeconds)
FormatTime ==
  /\ fmtCountdown # <<>>
  /\ fmtTime = <<>>
  /\ fmtTime' = <<formatTime(fmtCountdown[1], fmtShowSeconds)>>
  /\ UNCHANGED <<fmtCountdown, fmtShowSeconds, fmtHuman>>
  /\ UNCHANGED <<calcTarget, calcNow, calcResult, calcReverse, tzVars>>
  /\ UNCHANGED appVars
  /\ UNCHANGED storeVars

\* formatHumanReadable(countdown)
FormatHumanReadable ==
  /\ fmtCountdown # <<>>
  /\ fmtHuman = <<>>
  /\ fmtHuman' = <<formatHumanReadable(fmtCountdown[1])>>
  /\ UNCHANGED <<fmtCountdown, fmtShowSeconds, fmtTime>>
  /\ UNCHANGED <<calcTarget, calcNow, calcResult, calcReverse, tzVars>>
  /\ UNCHANGED appVars
  /\ UNCHANGED storeVars

\* the countdown comes from calculateCountdown only when none was written out
CalculateForFormat == fmtCountdown = <<>> /\ Calculate

NextFormat ==
  \/ CalculateForFormat
  \/ PassCountdown
  \/ FormatTime
  \/ FormatHumanReadable

SpecFormat == InitFormat /\ [][NextFormat]_vars

\* ------------------------------------------------------------------------
\* Reading digits and fields out of a string (Date.parse, and the
\* properties that read a formatted clock back)
\* ------------------------------------------------------------------------
\* str contains sub
Contains(str, sub) ==
  \E i \in 1..(Len(str) - Len(sub) + 1) : SubSeq(str, i, i + Len(sub) - 1) = sub

\* the fields of str between the separators " : "
RECURSIVE ClockFields(_)
ClockFields(str) ==
  IF ~Contains(str, " : ") THEN <<str>>
  ELSE LET i == CHOOSE k \in 1..(Len(str) - 2) :
                  /\ SubSeq(str, k, k + 2) = " : "
                  /\ \A j \in 1..(k - 1) : SubSeq(str, j, j + 2) # " : "
       IN <<SubSeq(str, 1, i - 1)>> \o ClockFields(SubSeq(str, i + 3, Len(str)))

HasMinus(str) == Len(str) > 0 /\ Head(str) = "-"

Unsigned(str) == IF HasMinus(str) THEN Tail(str) ELSE str

\* (-)?\d{2,} : \d{2} : \d{2}( : \d{2})?
MatchesClock(str) ==
  LET f == ClockFields(Unsigned(str))
  IN /\ Len(f) \in {3, 4}
     /\ Len(f[1]) >= 2 /\ IsDigits(f[1])
     /\ \A k \in 2..Len(f) : Len(f[k]) = 2 /\ IsDigits(f[k])

ProducedShape(cd) ==
  /\ cd.isPast <=> cd.totalMs < 0
  /\ cd.days >= 0
  /\ cd.hours \in 0..23 /\ cd.minutes \in 0..59 /\ cd.seconds \in 0..59
  /\ (Abs(cd.totalMs) < 1000 =>
        cd.days = 0 /\ cd.hours = 0 /\ cd.minutes = 0 /\ cd.seconds = 0)

\* C13: for every breakdown produced by calculateCountdown and both values
\* of showSeconds, the output of formatTime matches
\* (-)?DD+ : HH : MM( : SS)?: an optional minus, a days field of at least two
\* digits (all the digits of days when days > 99), two-digit hours and
\* minutes, and a two-digit seconds field exactly when showSeconds is true.
ClockPattern ==
  (fmtTime # <<>> /\ ProducedShape(fmtCountdown[1])) =>
    LET cd == fmtCountdown[1]
        f == ClockFields(Unsigned(fmtTime[1]))
    IN /\ MatchesClock(fmtTime[1])
       /\ (Len(f) = 4) <=> fmtShowSeconds
       /\ (cd.days > 99 => f[1] = ToString(cd.days))

\* C13 witness: a countdown of more than 99 days has been formatted with
\* seconds, and one produced by calculateCountdown without
ClockPatternWitness ==
  /\ fmtTime # <<>>
  /\ \/ fmtCountdown[1].days > 99 /\ fmtShowSeconds
        /\ ProducedShape(fmtCountdown[1])
     \/ calcResult # <<>> /\ fmtCountdown = calcResult /\ ~fmtShowSeconds
        /\ calcResult[1].days = 5 /\ calcResult[1].isPast

Counted(n, unit) ==
  IF n = 1 THEN "1 " \o unit ELSE ToString(n) \o " " \o unit \o "s"

\* C16: for abs(totalMs) >= 1000 with at least one of days, hours, minutes
\* non-zero, formatHumanReadable returns the non-zero fields among days,
\* hours, minutes in that order, each as '<n> <unit>' with the unit singular
\* exactly when n = 1, joined by ', ', followed by ' remaining.' when not
\* isPast and ' ago.' when isPast; seconds never appear in the sentence.
SentenceOfNonZeroFields ==
  (/\ fmtHuman # <<>>
   /\ Abs(fmtCountdown[1].totalMs) >= 1000
   /\ (fmtCountdown[1].days # 0 \/ fmtCountdown[1].hours # 0
         \/ fmtCountdown[1].minutes # 0)) =>
    LET cd == fmtCountdown[1]
        d == Counted(cd.days, "day")
        h == Counted(cd.hours, "hour")
        m == Counted(cd.minutes, "minute")
        list == CASE cd.days # 0 /\ cd.hours # 0 /\ cd.minutes # 0
                       -> d \o ", " \o h \o ", " \o m
                  [] cd.days # 0 /\ cd.hours # 0 /\ cd.minutes = 0
                       -> d \o ", " \o h
                  [] cd.days # 0 /\ cd.hours = 0 /\ cd.minutes # 0
                       -> d \o ", " \o m
                  [] cd.days # 0 /\ cd.hours = 0 /\ cd.minutes = 0 -> d
                  [] cd.days = 0 /\ cd.hours # 0 /\ cd.minutes # 0
                       -> h \o ", " \o m
                  [] cd.days = 0 /\ cd.hours # 0 /\ cd.minutes = 0 -> h
                  [] cd.days = 0 /\ cd.hours = 0 /\ cd.minutes # 0 -> m
    IN /\ fmtHuman[1] = list \o (IF cd.isPast THEN " ago." ELSE " remaining.")
       /\ ~Contains(fmtHuman[1], "second")

\* C16 witness: '1 day, 59 minutes ago.' has been built from a countdown
\* whose seconds are not zero
SentenceOfNonZeroFieldsWitness ==
  /\ fmtHuman # <<>>
  /\ fmtCountdown[1].seconds = 30
  /\ fmtHuman[1] = "1 day, 59 minutes ago."

\* C17: for abs(totalMs) >= 1000 with days = hours = minutes = 0,
\* formatHumanReadable returns 'Exam passed.' when isPast and
\* 'Less than a minute remaining.' otherwise.
OnlySecondsSentence ==
  (/\ fmtHuman # <<>>
   /\ Abs(fmtCountdown[1].totalMs) >= 1000
   /\ fmtCountdown[1].days = 0 /\ fmtCountdown[1].hours = 0
   /\ fmtCountdown[1].minutes = 0) =>
    /\ (fmtCountdown[1].isPast => fmtHuman[1] = "Exam passed.")
    /\ (~fmtCountdown[1].isPast => fmtHuman[1] = "Less than a minute remaining.")

\* C17 witness: the sentence has been built for 59.999 s remaining, computed
\* by calculateCountdown
OnlySecondsSentenceWitness ==
  /\ fmtHuman # <<>>
  /\ calcResult # <<>> /\ fmtCountdown = calcResult
  /\ calcResult[1].totalMs = 59999
  /\ fmtHuman[1] = "Less than a minute remaining."

\* C18: for target = now + 5 days 6 minutes 7 seconds,
\* formatTime(calculateCountdown(target, now), true) = '05 : 00 : 06 : 07' and
\* formatHumanReadable(calculateCountdown(target, now)) =
\* '5 days, 6 minutes remaining.': the zero hours are left out of the
\* sentence and rendered as '00' in the clock.
ComposedThenFormatted ==
  (/\ calcResult # <<>>
   /\ fmtCountdown = calcResult
   /\ calcTarget = calcNow + Compose(5, 0, 6, 7, 0)) =>
    /\ ((fmtTime # <<>> /\ fmtShowSeconds) => fmtTime[1] = "05 : 00 : 06 : 07")
    /\ (fmtHuman # <<>> => fmtHuman[1] = "5 days, 6 minutes remaining.")

\* C18 witness: both formatters have run on the countdown computed for
\* now + 5 days 6 minutes 7 seconds
ComposedThenFormattedWitness ==
  /\ calcResult # <<>>
  /\ fmtCountdown = calcResult
  /\ calcTarget = calcNow + Compose(5, 0, 6, 7, 0)
  /\ fmtTime # <<>> /\ fmtShowSeconds
  /\ fmtHuman # <<>>

\* ------------------------------------------------------------------------
\* utils/dateUtils.ts: Date <-> datetime-local string.  A Date is
\* [min, ms]: its time value is min * 60000 + ms with 0 <= ms < 60000 (the
\* time value of a present-day Date does not fit the integers of the model,
\* its count of whole minutes does), or InvalidDate when the time value is NaN
\* ------------------------------------------------------------------------
TIMEZONE_KOLKATA == "Asia/Kolkata"

InvalidDate == [nan |-> TRUE]

IsNaNDate(date) == "nan" \in DOMAIN date

MINUTES_PER_DAY == 24 * 60

\* day number (days since 1970-01-01) of a date of the proleptic Gregorian
\* calendar, as Date.parse computes it
DaysFromCivil(y, m, d) ==
  LET yy == IF m <= 2 THEN y - 1 ELSE y
      era == yy \div 400
      yoe == yy - era * 400
      mp == IF m > 2 THEN m - 3 ELSE m + 9
      doy == (153 * mp + 2) \div 5 + d - 1
      doe == yoe * 365 + yoe \div 4 - yoe \div 100 + doy
  IN era * 146097 + doe - 719468

\* year, month and day of a day number, as Intl.DateTimeFormat computes them
CivilFromDays(z) ==
  LET zz == z + 719468
      era == zz \div 146097
      doe == zz - era * 146097
      yoe == (doe - doe \div 1460 + doe \div 36524 - doe \div 146096) \div 365
      doy == doe - (365 * yoe + yoe \div 4 - yoe \div 100)
      mp == (5 * doy + 2) \div 153
      d == doy - (153 * mp + 2) \div 5 + 1
      m == IF mp < 10 THEN mp + 3 ELSE mp - 9
      y == yoe + era * 400 + (IF m <= 2 THEN 1 ELSE 0)
  IN [year |-> y, month |-> m, day |-> d]

\* whole minutes since the epoch of y-mo-dTh:mi read as UTC
UTCMinute(y, mo, d, h, mi) == DaysFromCivil(y, mo, d) * MINUTES_PER_DAY + h * 60 + mi

\* the zones the host may be in
HostZones == {"UTC", "America/New_York", "Asia/Kolkata"}

\* the UTC offsets (minutes) a zone has used in the years the model covers
ZoneOffsets(zone) ==
  CASE zone = "Asia/Kolkata" -> {330, 390}
    [] zone = "America/New_York" -> {-300, -240}
    [] OTHER -> {0}

\* the UTC offset (minutes) the time zone database gives a zone at an instant:
\* Asia/Kolkata is at +06:30 until 1945-10-15T00:00 local time and at +05:30
\* since (instants before September 1942 are not covered); America/New_York
\* by its rule of 2025, -04:00 from 2025-03-09T07:00Z to 2025-11-02T06:00Z and
\* -05:00 otherwise
OffsetAt(zone, utcMin) ==
  CASE zone = "Asia/Kolkata" ->
         (IF utcMin < UTCMinute(1945, 10, 14, 17, 30) THEN 390 ELSE 330)
    [] zone = "America/New_York" ->
         (IF utcMin >= UTCMinute(2025, 3, 9, 7, 0)
             /\ utcMin < UTCMinute(2025, 11, 2, 6, 0) THEN -240 ELSE -300)
    [] OTHER -> 0

\* `${year}-${month}-${day}T${hour}:${minute}` of the parts numeric year,
\* 2-digit month, day, hour (h23) and minute
JoinParts(c, hour, minute) ==
  ToString(c.year) \o "-" \o Pad2(c.month) \o "-" \o Pad2(c.day)
    \o "T" \o Pad2(hour) \o ":" \o Pad2(minute)

\* getFormattedDateTimeLocal(date, timezone)
getFormattedDateTimeLocal(date, timezone) ==
  IF IsNaNDate(date) THEN ""
  ELSE LET local == date.min + OffsetAt(timezone, date.min)
           c == CivilFromDays(local \div MINUTES_PER_DAY)
           minuteOfDay == local % MINUTES_PER_DAY
       IN JoinParts(c, minuteOfDay \div 60, minuteOfDay % 60)

\* str has digits at the places from..to
DigitsAt(str, from, to) ==
  /\ Len(str) >= to
  /\ IsDigits(SubSeq(str, from, to))

\* str begins with YYYY-MM-DDTHH:MM and the fields name a date and a time
IsDateTimePrefix(str) ==
  /\ Len(str) >= 16
  /\ DigitsAt(str, 1, 4) /\ SubSeq(str, 5, 5) = "-"
  /\ DigitsAt(str, 6, 7) /\ SubSeq(str, 8, 8) = "-"
  /\ DigitsAt(str, 9, 10) /\ SubSeq(str, 11, 11) = "T"
  /\ DigitsAt(str, 12, 13) /\ SubSeq(str, 14, 14) = ":"
  /\ DigitsAt(str, 15, 16)
  /\ NatOf(SubSeq(str, 6, 7)) \in 1..12
  /\ NatOf(SubSeq(str, 9, 10)) \in 1..31
  /\ NatOf(SubSeq(str, 12, 13)) \in 0..23
  /\ NatOf(SubSeq(str, 15, 16)) \in 0..59

\* the wall-clock minute YYYY-MM-DDTHH:MM names, counted as if it were UTC
WallMinute(str) ==
  UTCMinute(NatOf(SubSeq(str, 1, 4)), NatOf(SubSeq(str, 6, 7)),
            NatOf(SubSeq(str, 9, 10)), NatOf(SubSeq(str, 12, 13)),
            NatOf(SubSeq(str, 15, 16)))

\* new Date('YYYY-MM-DDTHH:MM:SS.sss+HH:MM'): the wall-clock time minus the
\* offset written in the string; NaN for any other text
ParseIsoWithOffset(iso) ==
  IF /\ Len(iso) = 29
     /\ IsDateTimePrefix(iso)
     /\ SubSeq(iso, 17, 17) = ":" /\ DigitsAt(iso, 18, 19)
     /\ NatOf(SubSeq(iso, 18, 19)) \in 0..59
     /\ SubSeq(iso, 20, 20) = "." /\ DigitsAt(iso, 21, 23)
     /\ SubSeq(iso, 24, 24) \in {"+", "-"}
     /\ DigitsAt(iso, 25, 26) /\ SubSeq(iso, 27, 27) = ":"
     /\ DigitsAt(iso, 28, 29)
  THEN LET offset == NatOf(SubSeq(iso, 25, 26)) * 60 + NatOf(SubSeq(iso, 28, 29))
           signed == IF SubSeq(iso, 24, 24) = "-" THEN 0 - offset ELSE offset
       IN [min |-> WallMinute(iso) - signed,
           ms |-> NatOf(SubSeq(iso, 18, 19)) * MILLISECONDS_IN_SECOND
                    + NatOf(SubSeq(iso, 21, 23))]
  ELSE InvalidDate

\* the instant of a wall-clock minute of the host zone: the instants whose
\* reading in the zone is that minute, the earliest of them when the minute
\* is repeated, and the offset before the change when it is skipped
LocalToUTC(host, wall) ==
  LET fits == {wall - o : o \in {x \in ZoneOffsets(host) :
                                    OffsetAt(host, wall - x) = x}}
  IN IF fits # {}
       THEN CHOOSE u \in fits : \A v \in fits : u <= v
       ELSE wall - OffsetAt(host, wall - MINUTES_PER_DAY)

\* new Date('YYYY-MM-DDTHH:MM'): a date-time without offset is local time
ParseIsoLocal(str, host) ==
  IF Len(str) = 16 /\ IsDateTimePrefix(str)
    THEN [min |-> LocalToUTC(host, WallMinute(str)), ms |-> 0]
    ELSE InvalidDate

\* getUTCFromDateTimeLocalAndTz(dateTimeLocalString, timezone), run on a
\* host whose zone is host
getUTCFromDateTimeLocalAndTz(dateTimeLocalString, timezone, host) ==
  IF dateTimeLocalString = "" THEN InvalidDate
  ELSE IF timezone = TIMEZONE_KOLKATA
    THEN ParseIsoWithOffset(dateTimeLocalString \o ":00.000+05:30")
    ELSE ParseIsoLocal(dateTimeLocalString, host)

\* isValidDateInput that only tests the string for emptiness
isValidDateInputNonEmpty(dateString, timezone, host) == dateString # ""

\* isValidDateInput(dateString, timezone), run on a host whose zone is host
isValidDateInput(dateString, timezone, host) ==
  IF dateString = "" THEN FALSE
  ELSE ~IsNaNDate(getUTCFromDateTimeLocalAndTz(dateString, timezone, host))

\* ------------------------------------------------------------------------
\* The two conversions on their own: a Date is formatted in a zone and the
\* string parsed back, or a string typed into the datetime-local input is
\* parsed
\* ------------------------------------------------------------------------
\* whole minutes of the Dates tried
TzMinutes ==
  {UTCMinute(1943, 1, 1, 0, 0),       \* Asia/Kolkata at +06:30
   UTCMinute(1945, 10, 14, 17, 30),   \* first minute of +05:30
   UTCMinute(1969, 12, 31, 23, 59),   \* before the epoch
   UTCMinute(2024, 2, 29, 12, 0),
   UTCMinute(2024, 12, 31, 18, 29),   \* last minute of 2024 in Asia/Kolkata
   UTCMinute(2024, 12, 31, 18, 30),
   UTCMinute(2025, 1, 15, 10, 30),
   UTCMinute(2025, 3, 9, 7, 30),      \* America/New_York after the clocks went forward
   UTCMinute(2025, 11, 2, 5, 30),     \* 01:30 in America/New_York, first time
   UTCMinute(2025, 11, 2, 6, 30)}     \* 01:30 in America/New_York, second time

\* seconds and milliseconds of the Dates tried
TzMillis == {0, 1, 30500, 59999}

TzDates == {[min |-> m, ms |-> f] : m \in TzMinutes, f \in TzMillis} \cup {InvalidDate}

\* Dates of the year 999, tried in UTC only (the local mean time the zones
\* kept then is not a whole number of minutes)
TzEarlyDates ==
  {[min |-> UTCMinute(999, 6, 15, 12, 0) + d, ms |-> 0] : d \in {0, 1}}

\* values of the datetime-local input
TzTexts ==
  {"2025-01-15T16:00", "2024-02-29T23:59", "2025-03-09T02:30",
   "2025-11-02T01:30", "1943-01-01T06:30", "", "not-a-date"}

InitTz ==
  /\ NoApp
  /\ NoStore
  /\ NoFormat
  /\ calcTarget = 0 /\ calcNow = 0 /\ calcResult = <<>> /\ calcReverse = <<>>
  /\ tzHost \in HostZones
  /\ tzZone \in {TIMEZONE_KOLKATA, tzHost}
  /\ \/ tzText = <<>> /\ \E date \in TzDates : tzInstant = <<date>>
     \/ /\ tzText = <<>> /\ tzHost = "UTC" /\ tzZone = "UTC"
        /\ \E date \in TzEarlyDates : tzInstant = <<date>>
     \/ tzInstant = <<>> /\ \E text \in TzTexts : tzText = <<text>>
  /\ tzParsed = <<>>
  /\ tzValid = <<>>

\* getFormattedDateTimeLocal(date, timezone)
FormatDateTimeLocal ==
  /\ tzInstant # <<>>
  /\ tzText = <<>>
  /\ tzText' = <<getFormattedDateTimeLocal(tzInstant[1], tzZone)>>
  /\ UNCHANGED <<tzHost, tzZone, tzInstant, tzParsed, tzValid>>
  /\ UNCHANGED <<calcTarget, calcNow, calcResult, calcReverse, fmtVars>>
  /\ UNCHANGED appVars
  /\ UNCHANGED storeVars

\* getUTCFromDateTimeLocalAndTz(dateTimeLocalString, timezone)
ParseDateTimeLocal ==
  /\ tzText # <<>>
  /\ tzParsed = <<>>
  /\ tzParsed' = <<getUTCFromDateTimeLocalAndTz(tzText[1], tzZone, tzHost)>>
  /\ UNCHANGED <<tzHost, tzZone, tzInstant, tzText, tzValid>>
  /\ UNCHANGED <<calcTarget, calcNow, calcResult, calcReverse, fmtVars>>
  /\ UNCHANGED appVars
  /\ UNCHANGED storeVars

\* isValidDateInput(dateString, timezone)
ValidateDateInput ==
  /\ tzText # <<>>
  /\ tzValid = <<>>
  /\ tzValid' = <<isValidDateInput(tzText[1], tzZone, tzHost)>>
  /\ UNCHANGED <<tzHost, tzZone, tzInstant, tzText, tzParsed>>
  /\ UNCHANGED <<calcTarget, calcNow, calcResult, calcReverse, fmtVars>>
  /\ UNCHANGED appVars
  /\ UNCHANGED storeVars

NextTz == FormatDateTimeLocal \/ ParseDateTimeLocal \/ ValidateDateInput

SpecTz == InitTz /\ [][NextTz]_vars

\* ------------------------------------------------------------------------
\* Properties of the two conversions (checked under SpecTz)
\* ------------------------------------------------------------------------
\* C19: for every valid instant and for both zone kinds (Asia/Kolkata and
\* the host zone), getUTCFromDateTimeLocalAndTz(getFormattedDateTimeLocal(
\* instant, zone), zone) equals the instant truncated to the minute, seconds
\* and milliseconds set to zero.
RoundTripToMinute ==
  (/\ tzInstant # <<>>
   /\ ~IsNaNDate(tzInstant[1])
   /\ tzParsed # <<>>) =>
    tzParsed[1] = [min |-> tzInstant[1].min, ms |-> 0]

\* C20: in the zone Asia/Kolkata a well-formed naive local datetime is read
\* at the constant offset +05:30, the instant being the wall-clock minute
\* minus 330 minutes with seconds and milliseconds zero ('2025-01-15T16:00'
\* gives 2025-01-15T10:30:00.000Z), and formatting an instant in that zone
\* adds 330 minutes.
KolkataAtConstantOffset ==
  tzZone = TIMEZONE_KOLKATA =>
    /\ (/\ tzText # <<>>
        /\ tzParsed # <<>>
        /\ Len(tzText[1]) = 16 /\ IsDateTimePrefix(tzText[1])) =>
          /\ tzParsed[1] = [min |-> WallMinute(tzText[1]) - 330, ms |-> 0]
          /\ (tzText[1] = "2025-01-15T16:00" =>
                tzParsed[1].min = UTCMinute(2025, 1, 15, 10, 30))
    /\ (/\ tzInstant # <<>>
        /\ ~IsNaNDate(tzInstant[1])
        /\ tzText # <<>>) =>
          /\ Len(tzText[1]) = 16 /\ IsDateTimePrefix(tzText[1])
          /\ WallMinute(tzText[1]) = tzInstant[1].min + 330

\* ------------------------------------------------------------------------
\* loadSettings and saveSettings on their own: a settings record in memory
\* and a localStorage that may hold anything and may refuse to be read or
\* written
\* ------------------------------------------------------------------------
\* the settings the handlers of App.tsx can produce
StoreSettings ==
  [title : {"JEE Exam", "", "The \"big\" one \\ 2026"},
   targetDate : {NEAR_TARGET_DATE_ISO},
   startDate : {"2025-06-01T00:00:00.000Z"},
   showSeconds : BOOLEAN,
   useKolkataTimezone : {TRUE},
   baseTheme : {"dark", "light"},
   colorScheme : {"blue-ocean", "red-ember"},
   notificationReminders : {<<>>, <<ONE_HOUR, ONE_DAY>>},
   notificationEnabled : BOOLEAN]

\* what localStorage may hold under STORAGE_KEY before the page writes it
StoreItems ==
  { NoItem, <<"">>, <<"{bad json">>, <<"null">>, <<"42">>,
    <<"{\"title\":null,\"showSeconds\":false,\"notificationReminders\":[]}">>,
    <<"{\"title\":\"Mock Test\",\"notificationEnabled\":true">> }

InitStore ==
  /\ NoApp
  /\ NoFormat
  /\ NoTz
  /\ calcTarget = 0 /\ calcNow = 0 /\ calcResult = <<>> /\ calcReverse = <<>>
  /\ storeItem \in StoreItems
  /\ storeReadable \in BOOLEAN
  /\ storeWritable \in BOOLEAN
  /\ storeSettings \in StoreSettings
  /\ storeSaved = <<>>
  /\ storeLoaded = <<>>

\* the persistence effect: saveSettings(settings)
SaveSettings ==
  /\ storeSaved = <<>>
  /\ storeLoaded = <<>>
  /\ LET r == saveSettings(storeSettings, storeItem, storeWritable)
     IN /\ storeItem' = r.item
        /\ storeSaved' = <<r.outcome>>
  /\ UNCHANGED <<storeReadable, storeWritable, storeSettings, storeLoaded>>
  /\ UNCHANGED <<calcTarget, calcNow, calcResult, calcReverse, fmtVars, tzVars>>
  /\ UNCHANGED appVars

\* useState(loadSettings) of the next page load
LoadSettings ==
  /\ storeLoaded = <<>>
  /\ storeLoaded' = <<loadSettings(storeItem, storeReadable)>>
  /\ UNCHANGED <<storeItem, storeReadable, storeWritable, storeSettings,
                 storeSaved>>
  /\ UNCHANGED <<calcTarget, calcNow, calcResult, calcReverse, fmtVars, tzVars>>
  /\ UNCHANGED appVars

NextStore == SaveSettings \/ LoadSettings
SpecStore == InitStore /\ [][NextStore]_vars

\* C24: persistence round-trips: once saveSettings(s) has stored s,
\* loadSettings() returns the same title, targetDate, startDate, showSeconds,
\* colorScheme, notificationReminders and notificationEnabled, with
\* useKolkataTimezone true and baseTheme 'dark' whatever s held.
SavedThenLoaded ==
  (storeSaved # <<>> /\ storeWritable /\ storeLoaded # <<>> /\ storeReadable) =>
    LET s == storeSettings
        l == storeLoaded[1]
    IN /\ DOMAIN l = DOMAIN s
       /\ l.title = s.title
       /\ l.targetDate = s.targetDate
       /\ l.startDate = s.startDate
       /\ l.showSeconds = s.showSeconds
       /\ l.colorScheme = s.colorScheme
       /\ l.notificationReminders = s.notificationReminders
       /\ l.notificationEnabled = s.notificationEnabled
       /\ l.useKolkataTimezone = TRUE
       /\ l.baseTheme = "dark"

\* C24 witness: settings with an empty title holding quotation marks
\* elsewhere, seconds hidden, no reminders and the light theme have been
\* saved and loaded back
SavedThenLoadedWitness ==
  /\ storeSaved = <<"returned">> /\ storeWritable /\ storeReadable
  /\ storeLoaded # <<>>
  /\ storeSettings.baseTheme = "light"
  /\ storeSettings.title = ""
  /\ ~storeSettings.showSeconds
  /\ storeSettings.notificationReminders = <<>>
  /\ storeLoaded[1].title = ""
  /\ storeLoaded[1].baseTheme = "dark"

\* the text under STORAGE_KEY is one JSON.parse rejects, or parses to null
Unparseable(item) == item \in {<<"{bad json">>, <<"null">>,
                               <<"{\"title\":\"Mock Test\",\"notificationEnabled\":true">>}

\* a load whose read or parse threw has returned the complete defaults, a
\* save has returned, and every load has returned a complete record
FailuresCaught ==
  /\ (storeLoaded # <<>> /\ (~storeReadable \/ Unparseable(storeItem))) =>
       storeLoaded[1] = DefaultSettings
  /\ storeSaved # <<>> => storeSaved[1] = "returned"
  /\ storeLoaded # <<>> => DOMAIN storeLoaded[1] = DOMAIN DefaultSettings

\* C25: persistence failure is never fatal: when reading or parsing the
\* stored record throws, loadSettings returns the complete defaults; when
\* writing throws, saveSettings returns normally and the settings in memory
\* (and the stored text) are as they were.
StorageFailureContained ==
  /\ []FailuresCaught
  /\ [][(storeSaved = <<>> /\ storeSaved' # <<>> /\ ~storeWritable) =>
          (storeItem' = storeItem /\ storeSettings' = storeSettings)]_vars

\* C25 witness: the write was refused, the call returned, and the later read
\* of a corrupt record returned the defaults
StorageFailureWitness ==
  /\ ~storeWritable
  /\ storeSaved = <<"returned">>
  /\ storeItem = <<"{bad json">>
  /\ storeLoaded = <<DefaultSettings>>
  /\ storeSettings # DefaultSettings

\* C21: getUTCFromDateTimeLocalAndTz returns an invalid Date (NaN time
\* value), and not an exception, for the empty string and for malformed text
\* such as 'not-a-date', in either zone; isValidDateInput is false for
\* exactly those inputs, true for every well-formed one.
MalformedTextIsInvalid ==
  (tzInstant = <<>> /\ tzText # <<>>) =>
    LET malformed == tzText[1] \in {"", "not-a-date"}
    IN /\ (tzParsed # <<>> =>
             /\ (malformed => tzParsed[1] = InvalidDate)
             /\ (~malformed => DOMAIN tzParsed[1] = {"min", "ms"}))
       /\ (tzValid # <<>> => (tzValid[1] <=> ~malformed))

\* C21 witness: 'not-a-date' has been parsed and validated in the host zone
MalformedTextWitness ==
  /\ tzInstant = <<>>
  /\ tzText = <<"not-a-date">>
  /\ tzZone # TIMEZONE_KOLKATA
  /\ tzParsed = <<InvalidDate>>
  /\ tzValid = <<FALSE>>

\* str has the form YYYY-MM-DDTHH:MM
HasLocalForm(str) ==
  /\ Len(str) = 16
  /\ IsDigits(SubSeq(str, 1, 4)) /\ SubSeq(str, 5, 5) = "-"
  /\ IsDigits(SubSeq(str, 6, 7)) /\ SubSeq(str, 8, 8) = "-"
  /\ IsDigits(SubSeq(str, 9, 10)) /\ SubSeq(str, 11, 11) = "T"
  /\ IsDigits(SubSeq(str, 12, 13)) /\ SubSeq(str, 14, 14) = ":"
  /\ IsDigits(SubSeq(str, 15, 16))

\* C22: getFormattedDateTimeLocal returns the empty string, and no
\* exception, whenever the Date is invalid (NaN time value), for any zone;
\* for a valid Date in a supported zone it returns a string of the form
\* YYYY-MM-DDTHH:MM.
FormattedHasLocalForm ==
  (tzInstant # <<>> /\ tzText # <<>>) =>
    /\ (IsNaNDate(tzInstant[1]) => tzText[1] = "")
    /\ (~IsNaNDate(tzInstant[1]) => HasLocalForm(tzText[1]))

\* C23: an invalid or unparseable target never reaches calculateCountdown:
\* whatever targetDate string enters the settings (the persisted record, the
\* 'target' URL parameter), updateCountdown calls calculateCountdown with a
\* valid target only, so the displayed breakdown never has NaN fields.
BreakdownNeverNaN ==
  mounted => \A i \in 1..Len(countdown) : "nan" \notin DOMAIN countdown[i]

\* C26: in every reachable state a reminder timer is pending only if, at the
\* last run of scheduleNotifications, notifications were enabled, the tracked
\* permission was 'granted' and the countdown was not past; a run at which
\* one of the three fails leaves no timer armed and no handle in the ref.
TimersOnlyWhenEnabled ==
  LET enabled == settings.notificationEnabled
      granted == notificationPermission = "granted"
      past == countdown # <<>> /\ countdown[1].isPast
  IN /\ timers # {} => (mounted /\ enabled /\ granted /\ ~past)
     /\ (mounted /\ ~(enabled /\ granted /\ ~past)) =>
          (timers = {} /\ notificationTimersRef = <<>>)

\* C26 witness: a timer was armed, and the run after notifications were
\* switched off left none
TimersOnlyWhenEnabledWitness ==
  /\ mounted
  /\ nextTimerId > 1
  /\ notified = {}
  /\ ~settings.notificationEnabled
  /\ notificationPermission = "granted"
  /\ countdown # <<>> /\ ~countdown[1].isPast
  /\ timers = {}

\* C27: while notifications stay enabled, the permission stays granted and
\* the target and the offsets stay as they are, a reminder that was armed
\* (its fire instant was in the future) is delivered exactly once, however
\* the per-second tick and the timer callbacks interleave: a step takes a
\* pending reminder away only by delivering it or by arming it again.
ReminderNeverLost ==
  [][\A t \in timers :
       (/\ mounted /\ mounted'
        /\ settings' = settings
        /\ settings.notificationEnabled
        /\ notificationPermission = "granted"
        /\ notificationPermission' = "granted"
        /\ t \notin timers') =>
         \/ \E n \in notified' \ notified : n.timer = t
         \/ \E u \in timers' : /\ u.idx = t.idx
                                /\ u.reminderTime = t.reminderTime]_vars

\* C28: a pending permission request cannot override a later choice of the
\* user: when the user has switched notifications off while
\* requestPermission() was pending, notificationEnabled is still false and no
\* timer is armed after it resolves; in general notificationEnabled is true
\* only if the user's last toggle was on.
LastToggleWins ==
  (mounted /\ lastToggle = <<FALSE>>) =>
    (~settings.notificationEnabled /\ timers = {})

====
